---- MODULE Spec2Model ----
(***************************************************************************)
(* A model of ui/qt/tap_parameter_dialog.cpp: the registry of statistics   *)
(* dialogs (registerDialog / showTapParameterStatistics), the serializer   *)
(* getTreeAsString with itemDataToPlain, and the dialog's event handlers   *)
(* (showEvent, on_applyFilterButton_clicked, updateWidgets,                *)
(* on_actionCopyToClipboard_triggered, on_actionSaveAs_triggered).         *)
(*                                                                         *)
(* Text is a sequence of one-character strings.  The alphabet used for     *)
(* inputs is ASCII and holds no '%' and no newline, so QString::arg's      *)
(* place-marker substitution and the QString -> UTF-8 conversion are       *)
(* length preserving on it.                                                *)
(***************************************************************************)
EXTENDS Integers, Sequences, FiniteSets, TLC

VARIABLES
    cfg_str_to_creator_,  \* static QHash<const QString, tpdCreator>
    menuActions,          \* QActions handed to wsApp->addStatisticsGroupItem
    registerCalls,        \* history of (key, creator) given to registerDialog
    lastCreate,           \* what the last showTapParameterStatistics call did
    headerLabels,         \* statsTreeWidget->headerItem() texts; columnCount = Len
    tree,                 \* treeItemData of every non-hidden item, in iterator order
    filterText,           \* displayFilterLineEdit->text()
    filterEnabled,        \* displayFilterLineEdit->isEnabled()
    applyEnabled,         \* applyFilterButton->isEnabled()
    file_closed_,         \* WiresharkDialog::file_closed_
    updateFilterSig,      \* last filter emitted with updateFilter, or NoSignal
    clipboard,            \* wsApp->clipboard() text
    lastExport,           \* what the last getTreeAsString call returned
    lastSave,             \* what the last on_actionSaveAs_triggered call did
    nShow,                \* number of showEvent deliveries
    nApply,               \* number of on_applyFilterButton_clicked deliveries
    nFill,                \* number of fillTree runs
    closeSnap             \* tree and nFill at the moment the file was closed

regVars == <<cfg_str_to_creator_, menuActions, registerCalls, lastCreate>>
treeVars == <<headerLabels, tree>>
dlgVars == <<filterText, filterEnabled, applyEnabled, file_closed_, updateFilterSig,
             nShow, nApply, nFill, closeSnap>>
outVars == <<clipboard, lastExport, lastSave>>
vars == <<regVars, treeVars, dlgVars, outVars>>

----------------------------------------------------------------------------
(* Bounds of the model *)

MaxRegs == 3
MaxCols == 2
MaxCells == 3
MaxRows == 2
MaxShows == 2
MaxApplies == 2

----------------------------------------------------------------------------
(* Text helpers *)

Max(a, b) == IF a >= b THEN a ELSE b
Min(a, b) == IF a <= b THEN a ELSE b

Rep(c, n) == [i \in 1..n |-> c]

RECURSIVE Flatten(_)
Flatten(ss) == IF ss = <<>> THEN <<>> ELSE Head(ss) \o Flatten(Tail(ss))

RECURSIVE Join(_, _)
\* QStringList::join(sep)
Join(parts, sep) ==
    IF parts = <<>> THEN <<>>
    ELSE IF Len(parts) = 1 THEN parts[1]
    ELSE parts[1] \o sep \o Join(Tail(parts), sep)

NL == <<"\n">>
Quoted(s) == <<"\"">> \o s \o <<"\"">>

Digit(d) == <<"0", "1", "2", "3", "4", "5", "6", "7", "8", "9">>[d + 1]

RECURSIVE NatToStr(_)
NatToStr(n) == IF n < 10 THEN <<Digit(n)>> ELSE NatToStr(n \div 10) \o <<Digit(n % 10)>>

IntToStr(n) == IF n < 0 THEN <<"-">> \o NatToStr(-n) ELSE NatToStr(n)

\* A Double cell holds its value in halves (num = 3 is 1.5), non-negative.
\* QVariant(double).toString(): shortest form, no trailing zeros.
DoubleToString(h) ==
    IF h % 2 = 0 THEN NatToStr(h \div 2) ELSE NatToStr(h \div 2) \o <<".", "5">>

\* QString::number(d, 'f', 6): always six decimals.
NumberF6(h) ==
    NatToStr(h \div 2) \o <<".">> \o
    (IF h % 2 = 0 THEN Rep("0", 6) ELSE <<"5">> \o Rep("0", 5))

\* QString("%1").arg(s, fieldWidth): positive pads on the left, negative on the right.
ArgFieldWidth(s, fieldWidth) ==
    LET w == IF fieldWidth < 0 THEN -fieldWidth ELSE fieldWidth
        pad == Rep(" ", Max(0, w - Len(s)))
    IN IF fieldWidth < 0 THEN s \o pad ELSE pad \o s

EscapeChar(c) ==
    CASE c = "<" -> <<"&", "l", "t", ";">>
      [] c = ">" -> <<"&", "g", "t", ";">>
      [] c = "&" -> <<"&", "a", "m", "p", ";">>
      [] c = "\"" -> <<"&", "q", "u", "o", "t", ";">>
      [] OTHER -> <<c>>

\* QString::toHtmlEscaped()
ToHtmlEscaped(s) == Flatten([i \in 1..Len(s) |-> EscapeChar(s[i])])

----------------------------------------------------------------------------
(* Cells: QVariant values *)

StrCell(s) == [type |-> "String", str |-> s, num |-> 0]
IntCell(n) == [type |-> "Int", str |-> <<>>, num |-> n]
UIntCell(n) == [type |-> "UInt", str |-> <<>>, num |-> n]
DoubleCell(h) == [type |-> "Double", str |-> <<>>, num |-> h]

\* QVariant::toString()
VarToString(var) ==
    CASE var.type = "String" -> var.str
      [] var.type \in {"Int", "UInt"} -> IntToStr(var.num)
      [] var.type = "Double" -> DoubleToString(var.num)
      [] OTHER -> <<>>

ItemDataToPlain(var, width) ==
    LET align_mul == IF var.type = "String" THEN -1 ELSE 1
        plain_str ==
            CASE var.type \in {"String", "Int", "UInt"} -> VarToString(var)
              [] var.type = "Double" -> NumberF6(var.num)
              [] OTHER -> <<>>
    IN IF Len(plain_str) < width
       THEN ArgFieldWidth(plain_str, width * align_mul)
       ELSE plain_str

----------------------------------------------------------------------------
(* getTreeAsString *)

ST_FORMAT_PLAIN == "ST_FORMAT_PLAIN"
ST_FORMAT_CSV == "ST_FORMAT_CSV"
ST_FORMAT_XML == "ST_FORMAT_XML"
ST_FORMAT_YAML == "ST_FORMAT_YAML"
Formats == {ST_FORMAT_PLAIN, ST_FORMAT_CSV, ST_FORMAT_XML, ST_FORMAT_YAML}

plain_sep_ == <<" ", " ">>

\* windowSubtitle() and cap_file_.fileName()
WindowSubtitle == <<"A", "&", "B">>
CapFileName == <<"c", ".", "p">>

\* headerItem()->text(col), col counted from 0: empty beyond the last column
HeaderText(hdr, col) == IF col < Len(hdr) THEN hdr[col + 1] ELSE <<>>

\* Mutant of WidthCell: every cell widens its column, whatever its type.
WidthCellAnyType(col_widths, col, var, hdr) ==
    LET w1 == IF Len(col_widths) <= col
              THEN Append(col_widths, Len(HeaderText(hdr, col)))
              ELSE col_widths
    IN [w1 EXCEPT ![col + 1] = Max(@, Len(ItemDataToPlain(var, 0)))]

\* Mutant of WidthCell: a width is recorded only when the cell is a String.
WidthCellAppendForString(col_widths, col, var, hdr) ==
    IF var.type = "String"
    THEN LET w1 == IF Len(col_widths) <= col
                   THEN Append(col_widths, Len(HeaderText(hdr, col)))
                   ELSE col_widths
         IN [w1 EXCEPT ![Min(col + 1, Len(w1))] = Max(@, Len(ItemDataToPlain(var, 0)))]
    ELSE col_widths

\* Pass 1, the body of the foreach over one row's cells (col counted from 0)
WidthCell(col_widths, col, var, hdr) ==
    LET w1 == IF Len(col_widths) <= col
              THEN Append(col_widths, Len(HeaderText(hdr, col)))
              ELSE col_widths
    IN IF var.type = "String"
       THEN [w1 EXCEPT ![col + 1] = Max(@, Len(ItemDataToPlain(var, 0)))]
       ELSE w1

RECURSIVE WidthRow(_, _, _, _)
\* Pass 1, one row: cells col+1 .. Len(tid)
WidthRow(col_widths, tid, col, hdr) ==
    IF col >= Len(tid) THEN col_widths
    ELSE WidthRow(WidthCell(col_widths, col, tid[col + 1], hdr), tid, col + 1, hdr)

RECURSIVE WidthPass(_, _, _)
\* Pass 1, the while loop over width_it
WidthPass(col_widths, rows, hdr) ==
    IF rows = <<>> THEN col_widths
    ELSE WidthPass(WidthRow(col_widths, Head(rows), 0, hdr), Tail(rows), hdr)

\* The XML declaration line
XmlDeclaration ==
    <<"<", "?", "x", "m", "l", " ", "v", "e", "r", "s", "i", "o", "n", "=", "\"", "1", ".", "0",
    "\"", " ", "e", "n", "c", "o", "d", "i", "n", "g", "=", "\"", "U", "T", "F", "-", "8", "\"", "?", ">">>

\* Mutant of PlainHeaderParts: every header label, whatever pass 1 recorded.
PlainHeaderPartsAll(hdr, col_widths) == hdr

\* ph_parts: labels of the columns below columnCount and below col_widths.length()
PlainHeaderParts(hdr, col_widths) ==
    [col \in 1..Min(Len(hdr), Len(col_widths)) |-> hdr[col]]

\* The "Title + header" switch: what is appended to ba, and the footer kept for the end
FormatHeader(format, hdr, col_widths) ==
    CASE format = ST_FORMAT_PLAIN ->
            LET plain_header == Join(PlainHeaderParts(hdr, col_widths), plain_sep_)
                top_separator == Rep("=", Len(plain_header)) \o NL
                file_header == WindowSubtitle \o <<" ", "-", " ">> \o CapFileName \o <<":">> \o NL
                footer == Rep("-", Len(plain_header)) \o NL
            IN [ba |-> top_separator \o file_header \o plain_header \o NL \o footer,
                footer |-> footer]
      [] format = ST_FORMAT_CSV ->
            [ba |-> Join([col \in 1..Len(hdr) |-> Quoted(hdr[col])], <<",">>) \o NL,
             footer |-> <<>>]
      [] format = ST_FORMAT_XML ->
            [ba |-> XmlDeclaration \o NL
                    \o <<"<", "t", "a", "b", "l", "e", ">">> \o NL
                    \o <<"<", "t", "i", "t", "l", "e", ">">> \o ToHtmlEscaped(WindowSubtitle)
                    \o <<"<", "/", "t", "i", "t", "l", "e", ">">> \o NL
                    \o <<"<", "t", "h", "e", "a", "d", ">">> \o NL \o <<"<", "r", "o", "w", ">">> \o NL
                    \o Flatten([col \in 1..Len(hdr) |->
                           <<" ", " ", "<", "e", "n", "t", "r", "y", ">">> \o ToHtmlEscaped(hdr[col])
                           \o <<"<", "/", "e", "n", "t", "r", "y", ">">> \o NL])
                    \o <<"<", "/", "r", "o", "w", ">">> \o NL \o <<"<", "/", "t", "h", "e", "a", "d", ">">> \o NL
                    \o <<"<", "t", "b", "o", "d", "y", ">">> \o NL,
             footer |-> <<"<", "/", "t", "b", "o", "d", "y", ">">> \o NL
                        \o <<"<", "/", "t", "a", "b", "l", "e", ">">> \o NL]
      [] format = ST_FORMAT_YAML ->
            [ba |-> <<"-", "-", "-">> \o NL
                    \o <<"D", "e", "s", "c", "r", "i", "p", "t", "i", "o", "n", ":", " ">>
                    \o Quoted(WindowSubtitle) \o NL
                    \o <<"F", "i", "l", "e", ":", " ">> \o Quoted(CapFileName) \o NL
                    \o <<"I", "t", "e", "m", "s", ":">> \o NL,
             footer |-> <<>>]
      [] OTHER -> [ba |-> <<>>, footer |-> <<>>]

\* Mutant of YamlEntry: the marker stays "-" for every cell of the row.
YamlEntryAlwaysDash(var, col, hdr) ==
    <<" ", " ", "-", " ">> \o HeaderText(hdr, col) \o <<":", " ">>
    \o (IF var.type = "String" THEN Quoted(VarToString(var)) ELSE VarToString(var)) \o NL

\* One cell's line of a YAML item: QString("  %1 %2: %3\n"), col counted from 0
YamlEntry(var, col, hdr) ==
    LET indent == IF col = 0 THEN "-" ELSE " "
        entry == IF var.type = "String" THEN Quoted(VarToString(var)) ELSE VarToString(var)
    IN <<" ", " ", indent, " ">> \o HeaderText(hdr, col) \o <<":", " ">> \o entry \o NL

\* The "Data" switch for one row with at least one cell.  A col_widths[i] outside
\* the list is reported by WidthLookupOutOfRange; the width 0 stands in for it here.
DataLine(format, tid, col_widths, hdr) ==
    CASE format = ST_FORMAT_PLAIN ->
            Join([i \in 1..Len(tid) |->
                     ItemDataToPlain(tid[i], IF i <= Len(col_widths) THEN col_widths[i] ELSE 0)],
                 plain_sep_) \o NL
      [] format = ST_FORMAT_CSV ->
            Join([i \in 1..Len(tid) |->
                     IF tid[i].type = "String" THEN Quoted(VarToString(tid[i]))
                     ELSE VarToString(tid[i])],
                 <<",">>) \o NL
      [] format = ST_FORMAT_XML ->
            <<"<", "r", "o", "w", ">">> \o NL
            \o Flatten([i \in 1..Len(tid) |->
                   <<" ", " ", "<", "e", "n", "t", "r", "y", ">">> \o ToHtmlEscaped(VarToString(tid[i]))
                   \o <<"<", "/", "e", "n", "t", "r", "y", ">">> \o NL])
            \o <<"<", "/", "r", "o", "w", ">">> \o NL
      [] format = ST_FORMAT_YAML ->
            Flatten([i \in 1..Len(tid) |-> YamlEntry(tid[i], i - 1, hdr)])
      [] OTHER -> <<>>

\* Mutant of RowSkipped: rows without cells are rendered like any other row.
RowSkippedNever(tid) == FALSE

\* if (tid.length() < 1) { ++it; continue; }
RowSkipped(tid) == Len(tid) < 1

\* col_widths[i] in pass 2 with i outside the list (QList::operator[] out of range)
WidthLookupOutOfRange(format, tid, col_widths) ==
    format = ST_FORMAT_PLAIN /\ Len(tid) > Len(col_widths)

GetTreeAsString(format, hdr, rows) ==
    LET col_widths == IF format = ST_FORMAT_PLAIN THEN WidthPass(<<>>, rows, hdr) ELSE <<>>
        h == FormatHeader(format, hdr, col_widths)
        data == Flatten([k \in 1..Len(rows) |->
                    IF RowSkipped(rows[k]) THEN <<>>
                    ELSE DataLine(format, rows[k], col_widths, hdr)])
    IN [format |-> format,
        ba |-> h.ba \o data \o h.footer,
        col_widths |-> col_widths,
        outOfRange |-> \E k \in 1..Len(rows) :
                          ~RowSkipped(rows[k]) /\ WidthLookupOutOfRange(format, rows[k], col_widths)]

----------------------------------------------------------------------------
(* The registry: registerDialog and showTapParameterStatistics *)

Keys == {"conv", "endpoints"}
Creators == {"creatorA", "creatorB", "creatorC"}
Args == {"", "ip"}
NullCreator == "nullCreator"
NoDialog == [creator |-> "none", cfg_str |-> "none", arg |-> "none"]

\* Mutant of RegisterDialog: an existing entry is kept (insert only when absent).
RegisterDialogKeepFirst(reg, cfg_str, creator) ==
    IF cfg_str \in DOMAIN reg THEN reg
    ELSE [k \in DOMAIN reg \cup {cfg_str} |-> IF k = cfg_str THEN creator ELSE reg[k]]

\* cfg_str_to_creator_[cfg_str] = creator;
RegisterDialog(reg, cfg_str, creator) ==
    [k \in DOMAIN reg \cup {cfg_str} |-> IF k = cfg_str THEN creator ELSE reg[k]]

\* Mutant of ShowTapParameterStatistics: no contains() test, so QHash::operator[]
\* inserts a default (null) creator for an absent key and the call goes through it.
ShowTapParameterStatisticsNoContains(reg, cfg_str, arg) ==
    LET reg1 == IF cfg_str \in DOMAIN reg THEN reg
                ELSE [k \in DOMAIN reg \cup {cfg_str} |->
                         IF k = cfg_str THEN NullCreator ELSE reg[k]]
    IN [reg |-> reg1,
        invoked |-> <<reg1[cfg_str]>>,
        tpd |-> IF reg1[cfg_str] = NullCreator THEN NoDialog
                ELSE [creator |-> reg1[cfg_str], cfg_str |-> cfg_str, arg |-> arg],
        crashed |-> reg1[cfg_str] = NullCreator]

\* The registry after the call, the creators invoked, the dialog returned (NoDialog
\* for NULL) and whether the call went through a null creator.
ShowTapParameterStatistics(reg, cfg_str, arg) ==
    IF cfg_str \in DOMAIN reg
    THEN [reg |-> reg,
          invoked |-> <<reg[cfg_str]>>,
          tpd |-> [creator |-> reg[cfg_str], cfg_str |-> cfg_str, arg |-> arg],
          crashed |-> FALSE]
    ELSE [reg |-> reg, invoked |-> <<>>, tpd |-> NoDialog, crashed |-> FALSE]

NoCreate ==
    [called |-> FALSE, cfg_str |-> "none", regsBefore |-> 0, keysBefore |-> {},
     keysAfter |-> {}, invoked |-> <<>>, tpd |-> NoDialog, crashed |-> FALSE]

InitRegistry ==
    /\ cfg_str_to_creator_ = <<>>
    /\ menuActions = <<>>
    /\ registerCalls = <<>>
    /\ lastCreate = NoCreate

\* TapParameterDialog::registerDialog(title, cfg_abbr, group, tap_init_cb, creator)
RegisterDialogCall(cfg_abbr, creator) ==
    /\ Len(registerCalls) < MaxRegs
    /\ cfg_str_to_creator_' = RegisterDialog(cfg_str_to_creator_, cfg_abbr, creator)
    /\ menuActions' = Append(menuActions, cfg_abbr)
    /\ registerCalls' = Append(registerCalls, <<cfg_abbr, creator>>)
    /\ UNCHANGED <<lastCreate, treeVars, dlgVars, outVars>>

\* TapParameterDialog::showTapParameterStatistics(parent, cf, cfg_str, arg, NULL)
ShowTapParameterStatisticsCall(cfg_str, arg) ==
    LET r == ShowTapParameterStatistics(cfg_str_to_creator_, cfg_str, arg)
    IN /\ cfg_str_to_creator_' = r.reg
       /\ lastCreate' = [called |-> TRUE, cfg_str |-> cfg_str,
                         regsBefore |-> Len(registerCalls),
                         keysBefore |-> DOMAIN cfg_str_to_creator_,
                         keysAfter |-> DOMAIN r.reg,
                         invoked |-> r.invoked, tpd |-> r.tpd, crashed |-> r.crashed]
       /\ UNCHANGED <<menuActions, registerCalls, treeVars, dlgVars, outVars>>

----------------------------------------------------------------------------
(* Inputs of the serializer *)

\* Header label of column i (from 1): the odd columns "N", the even ones "Cnt<"
Label(i) == IF i % 2 = 1 THEN <<"N">> ELSE <<"C", "n", "t", "<">>
HeaderChoices == {[i \in 1..n |-> Label(i)] : n \in 0..MaxCols}

CellKinds ==
    <<StrCell(<<"a", "&", "<", "d", "e">>), IntCell(-12), StrCell(<<"b">>),
      UIntCell(300), DoubleCell(3)>>

\* A row of n cells whose kinds rotate through CellKinds starting at p
Row(n, p) == [i \in 1..n |-> CellKinds[((i - 1 + p) % Len(CellKinds)) + 1]]
RowChoices == {Row(n, p) : n \in 0..MaxCells, p \in 0..(Len(CellKinds) - 1)}
TreeChoices == UNION {[1..k -> RowChoices] : k \in 0..MaxRows}

NoExport == [format |-> "none", ba |-> <<>>, col_widths |-> <<>>, outOfRange |-> FALSE]

----------------------------------------------------------------------------
(* The dialog's handlers *)

FilterTexts == {"", "tcp"}
NoSignal == "no signal"

\* What fillTree may leave in the tree (a subclass retaps the packets)
FillResults ==
    {<<Row(2, 0)>>, <<Row(1, 1), Row(0, 0), Row(3, 2)>>}

NoSnap == [taken |-> FALSE, tree |-> <<>>, nFill |-> 0]

NameFilters == {"Plain text file (*.txt)", "Comma separated values (*.csv)",
                "XML document (*.xml)", "YAML document (*.yaml)"}

\* selectedFilter.contains(glob, Qt::CaseInsensitive) on the four name filters
FilterContains(selectedFilter, glob) ==
    \/ glob = "*.yaml" /\ selectedFilter = "YAML document (*.yaml)"
    \/ glob = "*.xml" /\ selectedFilter = "XML document (*.xml)"
    \/ glob = "*.csv" /\ selectedFilter = "Comma separated values (*.csv)"
    \/ glob = "*.txt" /\ selectedFilter = "Plain text file (*.txt)"

SelectedFormat(selectedFilter) ==
    IF FilterContains(selectedFilter, "*.yaml")
    THEN [format |-> ST_FORMAT_YAML, file_ext |-> <<".", "y", "a", "m", "l">>]
    ELSE IF FilterContains(selectedFilter, "*.xml")
    THEN [format |-> ST_FORMAT_XML, file_ext |-> <<".", "x", "m", "l">>]
    ELSE IF FilterContains(selectedFilter, "*.csv")
    THEN [format |-> ST_FORMAT_CSV, file_ext |-> <<".", "c", "s", "v">>]
    ELSE [format |-> ST_FORMAT_PLAIN, file_ext |-> <<".", "t", "x", "t">>]

ToLower(c) ==
    CASE c = "T" -> "t" [] c = "X" -> "x" [] c = "C" -> "c" [] c = "S" -> "s"
      [] c = "V" -> "v" [] c = "M" -> "m" [] c = "L" -> "l" [] c = "Y" -> "y"
      [] c = "A" -> "a" [] OTHER -> c

\* file_name.endsWith(file_ext, Qt::CaseInsensitive)
EndsWithCI(s, ext) ==
    /\ Len(s) >= Len(ext)
    /\ \A i \in 1..Len(ext) : ToLower(s[Len(s) - Len(ext) + i]) = ToLower(ext[i])

FileNames == {<<"o">>, <<"o", ".", "T", "X", "T">>}

NoSave ==
    [accepted |-> FALSE, format |-> "none", file_name |-> <<>>, openOk |-> FALSE,
     putsOk |-> FALSE, opens |-> 0, writes |-> 0, closes |-> 0, warned |-> FALSE,
     warningPath |-> <<>>, data |-> <<>>]

\* Mutant of SaveAs: success is set as soon as the file opened, whatever fputs returns.
SaveAsIgnoringFputs(selectedFilter, selectedFile, openOk, putsOk, hdr, rows) ==
    LET sel == SelectedFormat(selectedFilter)
        file_name == IF EndsWithCI(selectedFile, sel.file_ext) THEN selectedFile
                     ELSE selectedFile \o sel.file_ext
        tree_as_ba == GetTreeAsString(sel.format, hdr, rows).ba
        success == openOk
    IN [accepted |-> TRUE, format |-> sel.format, file_name |-> file_name,
        openOk |-> openOk, putsOk |-> openOk /\ putsOk,
        opens |-> 1, writes |-> IF openOk THEN 1 ELSE 0, closes |-> IF openOk THEN 1 ELSE 0,
        warned |-> ~success, warningPath |-> IF success THEN <<>> ELSE file_name,
        data |-> IF openOk /\ putsOk THEN tree_as_ba ELSE <<>>]

\* on_actionSaveAs_triggered once SaveAsDialog.exec() has accepted: openOk is whether
\* ws_fopen returned a file, putsOk whether fputs returned something other than EOF.
SaveAs(selectedFilter, selectedFile, openOk, putsOk, hdr, rows) ==
    LET sel == SelectedFormat(selectedFilter)
        file_name == IF EndsWithCI(selectedFile, sel.file_ext) THEN selectedFile
                     ELSE selectedFile \o sel.file_ext
        tree_as_ba == GetTreeAsString(sel.format, hdr, rows).ba
        success == openOk /\ putsOk
    IN [accepted |-> TRUE, format |-> sel.format, file_name |-> file_name,
        openOk |-> openOk, putsOk |-> openOk /\ putsOk,
        opens |-> 1, writes |-> IF openOk THEN 1 ELSE 0, closes |-> IF openOk THEN 1 ELSE 0,
        warned |-> ~success, warningPath |-> IF success THEN <<>> ELSE file_name,
        data |-> IF openOk /\ putsOk THEN tree_as_ba ELSE <<>>]

\* updateWidgets(): the enabled state of (displayFilterLineEdit, applyFilterButton)
UpdateWidgets(closed, lineEditEnabled, buttonEnabled) ==
    IF closed THEN <<FALSE, FALSE>> ELSE <<lineEditEnabled, buttonEnabled>>

InitDialog ==
    /\ filterText = ""
    /\ filterEnabled = TRUE
    /\ applyEnabled = TRUE
    /\ file_closed_ = FALSE
    /\ updateFilterSig = NoSignal
    /\ nShow = 0
    /\ nApply = 0
    /\ nFill = 0
    /\ closeSnap = NoSnap

InitOutputs ==
    /\ clipboard = <<>>
    /\ lastExport = NoExport
    /\ lastSave = NoSave

\* fillTree(): the subclass clears the tree and fills it again
FillTree ==
    /\ tree' \in FillResults
    /\ nFill' = nFill + 1

\* setDisplayFilter(filter)
SetDisplayFilter(filter) ==
    /\ filterText' = filter
    /\ UNCHANGED <<regVars, treeVars, filterEnabled, applyEnabled, file_closed_,
                   updateFilterSig, nShow, nApply, nFill, closeSnap, outVars>>

\* showEvent(QShowEvent *)
ShowEvent ==
    /\ nShow < MaxShows
    /\ nShow' = nShow + 1
    /\ updateFilterSig' = IF filterText # "" THEN filterText ELSE updateFilterSig
    /\ FillTree
    /\ UNCHANGED <<regVars, headerLabels, filterText, filterEnabled, applyEnabled,
                   file_closed_, nApply, closeSnap, outVars>>

\* on_applyFilterButton_clicked(): clicked() comes only from an enabled button
ApplyFilterButtonClicked ==
    /\ applyEnabled
    /\ nApply < MaxApplies
    /\ nApply' = nApply + 1
    /\ updateFilterSig' = filterText
    /\ FillTree
    /\ UNCHANGED <<regVars, headerLabels, filterText, filterEnabled, applyEnabled,
                   file_closed_, nShow, closeSnap, outVars>>

\* on_actionCopyToClipboard_triggered()
CopyToClipboard ==
    /\ clipboard' = GetTreeAsString(ST_FORMAT_PLAIN, headerLabels, tree).ba
    /\ UNCHANGED <<regVars, treeVars, dlgVars, lastExport, lastSave>>

\* on_actionSaveAs_triggered()
SaveAsTriggered ==
    /\ \/ lastSave' = NoSave
       \/ \E selectedFilter \in NameFilters, selectedFile \in FileNames,
             openOk \in BOOLEAN, putsOk \in BOOLEAN :
             /\ openOk \/ ~putsOk
             /\ lastSave' = SaveAs(selectedFilter, selectedFile, openOk, putsOk,
                                   headerLabels, tree)
    /\ UNCHANGED <<regVars, treeVars, dlgVars, clipboard, lastExport>>

\* The capture file is closed: WiresharkDialog sets file_closed_ and calls updateWidgets()
CaptureFileClosing ==
    /\ ~file_closed_
    /\ file_closed_' = TRUE
    /\ filterEnabled' = UpdateWidgets(TRUE, filterEnabled, applyEnabled)[1]
    /\ applyEnabled' = UpdateWidgets(TRUE, filterEnabled, applyEnabled)[2]
    /\ closeSnap' = [taken |-> TRUE, tree |-> tree, nFill |-> nFill]
    /\ UNCHANGED <<regVars, treeVars, filterText, updateFilterSig, nShow, nApply,
                   nFill, outVars>>

\* A direct call of getTreeAsString(format)
GetTreeAsStringCall(format) ==
    /\ lastExport' = GetTreeAsString(format, headerLabels, tree)
    /\ UNCHANGED <<regVars, treeVars, dlgVars, clipboard, lastSave>>

----------------------------------------------------------------------------
(* Specifications *)

\* The registry under any interleaving of registerDialog and showTapParameterStatistics
InitReg ==
    /\ InitRegistry /\ InitDialog /\ InitOutputs
    /\ headerLabels = <<>> /\ tree = <<>>

NextReg ==
    \/ \E k \in Keys, c \in Creators : RegisterDialogCall(k, c)
    \/ \E k \in Keys, a \in Args : ShowTapParameterStatisticsCall(k, a)

SpecRegistry == InitReg /\ [][NextReg]_vars

\* getTreeAsString on any header and any visible rows within the bounds
InitExport ==
    /\ InitRegistry /\ InitDialog /\ InitOutputs
    /\ headerLabels \in HeaderChoices
    /\ tree \in TreeChoices

NextExport == \E f \in Formats : GetTreeAsStringCall(f)

SpecExport == InitExport /\ [][NextExport]_vars

\* One dialog under any sequence of host events
InitDlg ==
    /\ InitRegistry /\ InitDialog /\ InitOutputs
    /\ headerLabels = [i \in 1..2 |-> Label(i)]
    /\ tree = <<>>

NextDlg ==
    \/ \E f \in FilterTexts : SetDisplayFilter(f)
    \/ ShowEvent
    \/ ApplyFilterButtonClicked
    \/ CopyToClipboard
    \/ SaveAsTriggered
    \/ CaptureFileClosing

SpecDialog == InitDlg /\ [][NextDlg]_vars

----------------------------------------------------------------------------
(* Helpers of the properties *)

MaxOf(S) == CHOOSE m \in S : \A x \in S : x <= m

RECURSIVE SplitLines(_)
\* The lines of a text, each without its newline
SplitLines(s) ==
    IF s = <<>> THEN <<>>
    ELSE IF \E i \in 1..Len(s) : s[i] = "\n"
    THEN LET i == CHOOSE i \in 1..Len(s) : s[i] = "\n" /\ \A j \in 1..(i - 1) : s[j] # "\n"
         IN <<SubSeq(s, 1, i - 1)>> \o SplitLines(SubSeq(s, i + 1, Len(s)))
    ELSE <<s>>

StartsWith(s, p) == Len(s) >= Len(p) /\ SubSeq(s, 1, Len(p)) = p

HasCells(tid) == Len(tid) >= 1

\* The greatest number of cells in a row (0 without rows)
MaxCellCount(rows) == MaxOf({0} \cup {Len(rows[k]) : k \in 1..Len(rows)})

\* The registerDialog calls made before the last showTapParameterStatistics call
RegsOf(cfg_str) ==
    {i \in 1..lastCreate.regsBefore : registerCalls[i][1] = cfg_str}

PlainDone == lastExport.format = ST_FORMAT_PLAIN

----------------------------------------------------------------------------
(* C1: when the key given to showTapParameterStatistics was registered, the call  *)
(* invokes exactly the creator of the most recent registerDialog call for that    *)
(* key, whatever was registered for that key earlier or for other keys at any     *)
(* time.                                                                          *)
C1_LastRegistrationWins ==
    (lastCreate.called /\ RegsOf(lastCreate.cfg_str) # {}) =>
        LET last == MaxOf(RegsOf(lastCreate.cfg_str))
        IN /\ lastCreate.invoked = <<registerCalls[last][2]>>
           /\ lastCreate.tpd.creator = registerCalls[last][2]
           /\ lastCreate.tpd.cfg_str = lastCreate.cfg_str

\* A create of a key registered twice with different creators, another key
\* registered after its last registration.
C1_Witness ==
    /\ lastCreate.called
    /\ \E i, j \in RegsOf(lastCreate.cfg_str) :
          /\ i < j
          /\ registerCalls[i][2] # registerCalls[j][2]
          /\ j = MaxOf(RegsOf(lastCreate.cfg_str))
          /\ \E m \in (j + 1)..lastCreate.regsBefore :
                registerCalls[m][1] # lastCreate.cfg_str
                /\ registerCalls[m][2] # registerCalls[j][2]

(* C2: showTapParameterStatistics with a key that no registerDialog call has      *)
(* inserted returns NULL, invokes no creator, raises nothing, and leaves the set  *)
(* of registered keys as it was.                                                  *)
C2_UnregisteredKeyReturnsNone ==
    (lastCreate.called /\ RegsOf(lastCreate.cfg_str) = {}) =>
        /\ lastCreate.tpd = NoDialog
        /\ lastCreate.invoked = <<>>
        /\ ~lastCreate.crashed
        /\ lastCreate.keysAfter = lastCreate.keysBefore
        /\ DOMAIN cfg_str_to_creator_ = {registerCalls[i][1] : i \in 1..Len(registerCalls)}

\* A create of an unregistered key while another key is registered.
C2_Witness ==
    /\ lastCreate.called
    /\ RegsOf(lastCreate.cfg_str) = {}
    /\ lastCreate.regsBefore >= 2
    /\ lastCreate.tpd = NoDialog

C4_FullHeaderLine ==
    PlainDone =>
        LET lines == SplitLines(lastExport.ba)
            full == Join(headerLabels, plain_sep_)
        IN /\ Len(lines) >= 4
           /\ lines[3] = full
           /\ lines[1] = Rep("=", Len(full))
           /\ lines[4] = Rep("-", Len(full))
           /\ lines[Len(lines)] = Rep("-", Len(full))

(* C4 amended: in plain format the header line is the first n header labels       *)
(* joined by two spaces, n the smaller of the number of header labels and the     *)
(* greatest cell count of a visible row; the '=' line, the '-' line under the     *)
(* header and the final '-' line have the length of that emitted header line.     *)
C4_EmittedHeaderLine ==
    PlainDone =>
        LET lines == SplitLines(lastExport.ba)
            n == Min(Len(headerLabels), MaxCellCount(tree))
            shown == Join(SubSeq(headerLabels, 1, n), plain_sep_)
        IN /\ Len(lines) >= 4
           /\ lines[3] = shown
           /\ lines[1] = Rep("=", Len(shown))
           /\ lines[4] = Rep("-", Len(shown))
           /\ lines[Len(lines)] = Rep("-", Len(shown))

\* Two header labels, a zero-cell row, and no row with more than one cell.
C4_Witness ==
    /\ PlainDone
    /\ Len(headerLabels) = 2
    /\ MaxCellCount(tree) = 1
    /\ \E k \in 1..Len(tree) : Len(tree[k]) = 0
    /\ SplitLines(lastExport.ba)[3] = headerLabels[1]

(* C5: in each of the four formats the output for the visible rows is the output  *)
(* for the same rows with every zero-cell row removed, and in plain format the    *)
(* column widths are the same too.                                                *)
C5_ZeroCellRowsIgnored ==
    lastExport.format \in Formats =>
        LET without == GetTreeAsString(lastExport.format, headerLabels, SelectSeq(tree, HasCells))
        IN /\ lastExport.ba = without.ba
           /\ lastExport.col_widths = without.col_widths

\* A zero-cell row ahead of a row with cells, serialized.
C5_Witness ==
    /\ lastExport.format = ST_FORMAT_XML
    /\ Len(tree) = 2
    /\ Len(tree[1]) = 0
    /\ Len(tree[2]) >= 2
    /\ Len(headerLabels) >= 1

\* The text of a YAML value: String in double quotes, every other type bare
YamlValue(var) == IF var.type = "String" THEN Quoted(var.str) ELSE VarToString(var)

\* The item lines expected for the rows, the first cell of a row after `first`,
\* the later ones after `later`
YamlItemLines(rows, hdr, first, later) ==
    Flatten([k \in 1..Len(rows) |->
        [i \in 1..Len(rows[k]) |->
            (IF i = 1 THEN first ELSE later) \o HeaderText(hdr, i - 1)
            \o <<":", " ">> \o YamlValue(rows[k][i])]])

YamlPreambleOk(lines) ==
    /\ Len(lines) >= 4
    /\ lines[1] = <<"-", "-", "-">>
    /\ StartsWith(lines[2], <<"D", "e", "s", "c", "r", "i", "p", "t", "i", "o", "n", ":">>)
    /\ StartsWith(lines[3], <<"F", "i", "l", "e", ":">>)
    /\ lines[4] = <<"I", "t", "e", "m", "s", ":">>
    /\ Cardinality({n \in 1..Len(lines) :
           StartsWith(lines[n], <<"D", "e", "s", "c", "r", "i", "p", "t", "i", "o", "n", ":">>)}) = 1
    /\ Cardinality({n \in 1..Len(lines) : StartsWith(lines[n], <<"F", "i", "l", "e", ":">>)}) = 1

(* C6 as stated: YAML output is '---', one 'Description:' line, one 'File:' line,  *)
(* 'Items:', then per visible row with cells a first line '- <label0>: <value0>'  *)
(* and later lines '  <label_i>: <value_i>', String values double-quoted and the  *)
(* other types bare.                                                              *)
C6_YamlShapeAsStated ==
    lastExport.format = ST_FORMAT_YAML =>
        LET lines == SplitLines(lastExport.ba)
        IN /\ YamlPreambleOk(lines)
           /\ SubSeq(lines, 5, Len(lines)) =
                  YamlItemLines(tree, headerLabels, <<"-", " ">>, <<" ", " ">>)

(* C6 amended: as stated, except that every item line is indented two spaces      *)
(* more: the first cell's line is '  - <label0>: <value0>' and every later        *)
(* cell's line is '    <label_i>: <value_i>' (four spaces).                       *)
C6_YamlShape ==
    lastExport.format = ST_FORMAT_YAML =>
        LET lines == SplitLines(lastExport.ba)
        IN /\ YamlPreambleOk(lines)
           /\ SubSeq(lines, 5, Len(lines)) =
                  YamlItemLines(tree, headerLabels, <<" ", " ", "-", " ">>, <<" ", " ", " ", " ">>)

\* YAML of two rows with cells, one holding a String and a number.
C6_Witness ==
    /\ lastExport.format = ST_FORMAT_YAML
    /\ Len(tree) = 2
    /\ Len(tree[1]) >= 2 /\ Len(tree[2]) >= 1
    /\ tree[1][1].type = "String" /\ tree[1][2].type # "String"
    /\ Len(headerLabels) = 2

(* C7: whatever the rows' cell counts are against the number of header labels,    *)
(* serialization completes in every format, and in plain pass 2 every width       *)
(* lookup for a cell position finds a width recorded by pass 1.                   *)
C7_MismatchNeverFatal ==
    lastExport.format \in Formats =>
        /\ ~lastExport.outOfRange
        /\ lastExport.ba # <<>>
        /\ PlainDone => \A k \in 1..Len(tree) : Len(tree[k]) <= Len(lastExport.col_widths)

\* Plain output of a row shorter and a row longer than the header, the widest
\* position holding no String.
C7_Witness ==
    /\ PlainDone
    /\ Len(headerLabels) = 2
    /\ Len(tree) = 2
    /\ Len(tree[1]) = 1
    /\ Len(tree[2]) = 3
    /\ tree[2][3].type # "String"
    /\ Len(lastExport.col_widths) = 3

C9_FillOnFirstDisplayAndApply ==
    nFill = (IF nShow >= 1 THEN 1 ELSE 0) + nApply

(* C10: once the file is closed the filter line edit and the apply button are     *)
(* disabled and the tree is the one computed last before the close: not rebuilt.  *)
C10_FrozenAfterClose ==
    file_closed_ =>
        /\ ~filterEnabled
        /\ ~applyEnabled
        /\ closeSnap.taken
        /\ tree = closeSnap.tree
        /\ nFill = closeSnap.nFill

====
